---- MODULE Spec2Model ----
(***************************************************************************)
(* Job lifecycle and segment pipeline of the audio backend:                *)
(*   audio_backend/models/job_manager.py   JobManager, ProcessingJob       *)
(*   audio_backend/models/audio_config.py  AudioProcessingConfig           *)
(*   audio_backend/pipeline/processor.py   AudioPipelineProcessor          *)
(*   audio_backend/main.py                 request handlers, process_job   *)
(* and the job registry of the cover-studio plugin:                        *)
(*   plugins/wan2gp-cover-studio/backend/services/pipeline.py CoverPipeline*)
(*   plugins/wan2gp-cover-studio/backend/api/routes.py        its routes   *)
(*                                                                         *)
(* A job's background task is a sequence of steps, one per JobManager call *)
(* or external call (stage wrapper, ffmpeg) of process_job/process.  Every *)
(* JobManager call writes a snapshot to disk, so each intermediate state   *)
(* is observable.  The requests of callers are interleaved with the steps  *)
(* of the task at every step boundary: JobManager holds no lock and the    *)
(* processor never reads the job's status, so nothing in the code orders a *)
(* request against a step.                                                 *)
(*                                                                         *)
(* Time: updated_at is a logical stamp per job; every datetime.now() read  *)
(* for a job is later than the job's last stamp.  Progress values are      *)
(* exact fractions.  Stage configs keep extract_f0_only at its default, so *)
(* a wrapper that returns True has written its output file.                *)
(*                                                                         *)
(* The plugin's process_cover is a plain function, which the framework     *)
(* runs on a worker thread after the response is sent; its steps are the   *)
(* accesses it makes to CoverPipeline.jobs, each taken as one step, and    *)
(* the plugin's requests are interleaved with them.                        *)
(***************************************************************************)
EXTENDS Integers, Sequences, FiniteSets, TLC

VARIABLES jobs, disk, task, wrappers, next_id, response, cover

vars == <<jobs, disk, task, wrappers, next_id, response, cover>>

(* ------------------------------ bounds -------------------------------- *)

MaxSegs == 2
MaxProgressSegs == 11
MaxClock == 3
MaxJobs == 3
MaxSamples == 4
MaxSegmentLength == 2

(* ------------------------------ values -------------------------------- *)

\* JobStatus
QUEUED == "queued"
RUNNING == "running"
PAUSED == "paused"
COMPLETED == "completed"
FAILED == "failed"
CANCELLED == "cancelled"

JobStatus == {QUEUED, RUNNING, PAUSED, COMPLETED, FAILED, CANCELLED}

\* Python's None, for a path
NoPath == [kind |-> "None", job |-> 0, seg |-> 0]

\* a path of the caller's file system, named in a segment definition
UserPath(name) == [kind |-> name, job |-> 0, seg |-> 0]

\* temp_dir / f"{job_id}_segment_{segment_idx}_{kind}.wav"
TempPath(j, i, kind) == [kind |-> kind, job |-> j, seg |-> i + 1]

\* temp_dir / f"{job_id}_combined.{format}"
CombinedPath(j) == [kind |-> "combined", job |-> j, seg |-> 0]

\* the caller's files that exist (Path(original_path).exists())
ExistingUserFiles == {"a.wav"}

RECURSIVE GCD(_, _)
GCD(a, b) == IF b = 0 THEN a ELSE GCD(b, a % b)

\* a progress value n/d, kept in lowest terms so that equal values are equal
Frac(n, d) == LET g == GCD(n, d) IN [num |-> n \div g, den |-> d \div g]

FracLeq(p, q) == p.num * q.den <= q.num * p.den

\* a formatted string: its template and the values formatted into it
Msg(text, a, b) == [text |-> text, arg |-> "", a |-> a, b |-> b]

MsgStr(text, arg) == [text |-> text, arg |-> arg, a |-> 0, b |-> 0]

Get(d, k, default) == IF k \in DOMAIN d THEN d[k] ELSE default

(* ------------------- audio_config.py: configuration ------------------- *)

StageNameValid(stage) == stage \in {"swiftf0", "svc", "instrumental", "mixing"}

\* a validator that looks at the first stage name only
validate_pipeline_stages_first_only(v) == Len(v) = 0 \/ StageNameValid(v[1])

\* AudioProcessingConfig.validate_pipeline_stages: TRUE when it returns v,
\* FALSE when it raises ValueError
validate_pipeline_stages(v) == \A k \in 1..Len(v) : StageNameValid(v[k])

(* ------------------- job_manager.py: ProcessingJob -------------------- *)

\* AudioSegment.__init__
AudioSegment(idx, start_time, end_time, original_path) ==
    [index |-> idx,
     start_time |-> start_time,
     end_time |-> end_time,
     duration |-> end_time - start_time,
     original_path |-> original_path,
     status |-> QUEUED,
     preview_path |-> NoPath,
     result_path |-> NoPath]

\* a constructor that numbers the segments from 1
ProcessingJob_one_based(job_id, config, segments) ==
    [job_id |-> job_id,
     config |-> config,
     status |-> QUEUED,
     progress |-> Frac(0, 1),
     current_stage |-> Msg("initialization", 0, 0),
     segments_completed |-> 0,
     segments_total |-> Len(segments),
     message |-> Msg("Job created", 0, 0),
     created_at |-> job_id,
     updated_at |-> 0,
     results |-> [output_path |-> NoPath, segments |-> <<>>],
     segments |->
        [k \in 1..Len(segments) |->
            AudioSegment(k, 0, 10, Get(segments[k], "original_path", NoPath))]]

\* ProcessingJob.__init__
ProcessingJob(job_id, config, segments) ==
    [job_id |-> job_id,
     config |-> config,
     status |-> QUEUED,
     progress |-> Frac(0, 1),
     current_stage |-> Msg("initialization", 0, 0),
     segments_completed |-> 0,
     segments_total |-> Len(segments),
     message |-> Msg("Job created", 0, 0),
     created_at |-> job_id,
     updated_at |-> 0,
     results |-> [output_path |-> NoPath, segments |-> <<>>],
     segments |->
        [k \in 1..Len(segments) |->
            AudioSegment(k - 1,
                         Get(segments[k], "start_time", 0),
                         Get(segments[k], "end_time",
                             Get(segments[k], "start_time", 0)
                               + Get(segments[k], "duration", 10)),
                         Get(segments[k], "original_path", NoPath))]]

\* datetime.now() read for a job: an instant later than its last timestamp
Now(job) == job.updated_at + 1

\* an update that adds the value reported to the progress so far
job_update_progress_accumulating(job, progress, current_stage, message) ==
    [job EXCEPT !.progress = Frac(@.num * progress.den + progress.num * @.den,
                                  @.den * progress.den),
                !.current_stage = current_stage,
                !.message = message,
                !.updated_at = Now(job)]

\* ProcessingJob.update_progress
job_update_progress(job, progress, current_stage, message) ==
    [job EXCEPT !.progress = progress,
                !.current_stage = current_stage,
                !.message = message,
                !.updated_at = Now(job)]

CountDone(segments) ==
    Cardinality({k \in 1..Len(segments) :
                    segments[k].status \in {COMPLETED, FAILED}})

\* an update that counts the finished segments before it sets the status
job_update_segment_status_stale_count(job, segment_index, status, preview_path, result_path) ==
    IF 0 <= segment_index /\ segment_index < Len(job.segments)
    THEN [job EXCEPT !.segments[segment_index + 1].status = status,
                     !.segments_completed = CountDone(job.segments),
                     !.updated_at = Now(job)]
    ELSE job

\* an update that moves an index outside the list to the nearest segment
job_update_segment_status_clamped(job, segment_index, status, preview_path, result_path) ==
    IF Len(job.segments) > 0
    THEN LET k == IF segment_index < 0 THEN 1
                  ELSE IF segment_index >= Len(job.segments)
                       THEN Len(job.segments) ELSE segment_index + 1
             segs == [job.segments EXCEPT ![k].status = status]
         IN [job EXCEPT !.segments = segs,
                        !.segments_completed = CountDone(segs),
                        !.updated_at = Now(job)]
    ELSE job

\* ProcessingJob.update_segment_status (segment_index is 0-based)
job_update_segment_status(job, segment_index, status, preview_path, result_path) ==
    IF 0 <= segment_index /\ segment_index < Len(job.segments)
    THEN LET k == segment_index + 1
             seg == [job.segments[k] EXCEPT
                        !.status = status,
                        !.preview_path =
                            IF preview_path # NoPath THEN preview_path ELSE @,
                        !.result_path =
                            IF result_path # NoPath THEN result_path ELSE @]
             segs == [job.segments EXCEPT ![k] = seg]
         IN [job EXCEPT !.segments = segs,
                        !.segments_completed = CountDone(segs),
                        !.updated_at = Now(job)]
    ELSE job

(* --------------------- job_manager.py: JobManager --------------------- *)
(* Each method is an operator from the manager's state (the jobs dict js   *)
(* and the metadata files dk) to the state after the call, with the value  *)
(* returned where there is one.                                            *)

\* AudioSegment.to_dict
segment_to_dict(seg) ==
    [index |-> seg.index,
     start_time |-> seg.start_time,
     end_time |-> seg.end_time,
     duration |-> seg.duration,
     original_path |-> seg.original_path,
     status |-> seg.status,
     preview_path |-> seg.preview_path,
     result_path |-> seg.result_path]

\* ProcessingJob.to_dict
job_to_dict(job) ==
    [job_id |-> job.job_id,
     status |-> job.status,
     progress |-> job.progress,
     current_stage |-> job.current_stage,
     segments_completed |-> job.segments_completed,
     segments_total |-> job.segments_total,
     message |-> job.message,
     config |-> job.config,
     segments |-> [k \in 1..Len(job.segments) |-> segment_to_dict(job.segments[k])],
     results |-> job.results,
     created_at |-> job.created_at,
     updated_at |-> job.updated_at]

\* JobManager._save_job_metadata: the file holds job.to_dict()
save_job_metadata(dk, job) ==
    [id \in DOMAIN dk \cup {job.job_id} |->
        IF id = job.job_id THEN job_to_dict(job) ELSE dk[id]]

Put(js, job) ==
    [id \in DOMAIN js \cup {job.job_id} |->
        IF id = job.job_id THEN job ELSE js[id]]

Saved(js, dk, job) ==
    [jobs |-> Put(js, job), disk |-> save_job_metadata(dk, job)]

Same(js, dk) == [jobs |-> js, disk |-> dk]

\* JobManager.create_job, with job_id the fresh uuid
create_job(js, dk, job_id, config, segments) ==
    Saved(js, dk, ProcessingJob(job_id, config, segments))

\* Python's None, for a job
NoJob == [job_id |-> 0]

\* JobManager.get_job
get_job(js, job_id) == IF job_id \in DOMAIN js THEN js[job_id] ELSE NoJob

\* a status update that does not write the metadata file
update_job_status_unsaved(js, dk, job_id, status, message) ==
    IF job_id \in DOMAIN js
    THEN [jobs |-> Put(js, [js[job_id] EXCEPT !.status = status,
                                              !.message = message]),
          disk |-> dk]
    ELSE Same(js, dk)

\* JobManager.update_job_status (progress is never passed by the callers)
update_job_status(js, dk, job_id, status, message) ==
    IF job_id \in DOMAIN js
    THEN Saved(js, dk, [js[job_id] EXCEPT !.status = status,
                                          !.message = message])
    ELSE Same(js, dk)

\* JobManager.update_job_progress
update_job_progress(js, dk, job_id, progress, current_stage, message) ==
    IF job_id \in DOMAIN js
    THEN Saved(js, dk,
               job_update_progress(js[job_id], progress, current_stage, message))
    ELSE Same(js, dk)

\* JobManager.update_segment_status
update_segment_status(js, dk, job_id, segment_index, status, preview_path, result_path) ==
    IF job_id \in DOMAIN js
    THEN Saved(js, dk,
               job_update_segment_status(js[job_id], segment_index, status,
                                         preview_path, result_path))
    ELSE Same(js, dk)

\* a complete_job that does not store the results
complete_job_drops_results(js, dk, job_id, results) ==
    IF job_id \in DOMAIN js
    THEN Saved(js, dk, [js[job_id] EXCEPT
                            !.status = COMPLETED,
                            !.progress = Frac(100, 1),
                            !.current_stage = Msg("completed", 0, 0),
                            !.message = Msg("Job completed successfully", 0, 0),
                            !.updated_at = Now(js[job_id])])
    ELSE Same(js, dk)

\* a complete_job that stores the results and leaves the status
complete_job_keeps_status(js, dk, job_id, results) ==
    IF job_id \in DOMAIN js
    THEN Saved(js, dk, [js[job_id] EXCEPT
                            !.progress = Frac(100, 1),
                            !.message = Msg("Job completed successfully", 0, 0),
                            !.results = results,
                            !.updated_at = Now(js[job_id])])
    ELSE Same(js, dk)

\* JobManager.complete_job
complete_job(js, dk, job_id, results) ==
    IF job_id \in DOMAIN js
    THEN Saved(js, dk, [js[job_id] EXCEPT
                            !.status = COMPLETED,
                            !.progress = Frac(100, 1),
                            !.current_stage = Msg("completed", 0, 0),
                            !.message = Msg("Job completed successfully", 0, 0),
                            !.results = results,
                            !.updated_at = Now(js[job_id])])
    ELSE Same(js, dk)

\* a fail_job that records the message and leaves the status
fail_job_keeps_status(js, dk, job_id, error_message) ==
    IF job_id \in DOMAIN js
    THEN Saved(js, dk, [js[job_id] EXCEPT
                            !.message = MsgStr("Job failed: ", error_message),
                            !.updated_at = Now(js[job_id])])
    ELSE Same(js, dk)

\* a fail_job whose message leaves out the error text
fail_job_generic_message(js, dk, job_id, error_message) ==
    IF job_id \in DOMAIN js
    THEN Saved(js, dk, [js[job_id] EXCEPT
                            !.status = FAILED,
                            !.current_stage = Msg("failed", 0, 0),
                            !.message = Msg("Job failed", 0, 0),
                            !.updated_at = Now(js[job_id])])
    ELSE Same(js, dk)

\* JobManager.fail_job
fail_job(js, dk, job_id, error_message) ==
    IF job_id \in DOMAIN js
    THEN Saved(js, dk, [js[job_id] EXCEPT
                            !.status = FAILED,
                            !.current_stage = Msg("failed", 0, 0),
                            !.message = MsgStr("Job failed: ", error_message),
                            !.updated_at = Now(js[job_id])])
    ELSE Same(js, dk)

\* a cancel that refuses only the terminal statuses
cancel_job_unless_terminal(js, dk, job_id) ==
    IF job_id \in DOMAIN js
       /\ js[job_id].status \notin {COMPLETED, FAILED, CANCELLED}
    THEN [ret |-> TRUE,
          st |-> Saved(js, dk, [js[job_id] EXCEPT
                                    !.status = CANCELLED,
                                    !.message = Msg("Job cancelled", 0, 0),
                                    !.updated_at = Now(js[job_id])])]
    ELSE [ret |-> FALSE, st |-> Same(js, dk)]

\* a cancel that reports success for a job that is not there
cancel_job_missing_is_cancelled(js, dk, job_id) ==
    IF job_id \notin DOMAIN js
    THEN [ret |-> TRUE, st |-> Same(js, dk)]
    ELSE IF js[job_id].status \in {QUEUED, RUNNING}
    THEN [ret |-> TRUE,
          st |-> Saved(js, dk, [js[job_id] EXCEPT
                                    !.status = CANCELLED,
                                    !.message = Msg("Job cancelled", 0, 0),
                                    !.updated_at = Now(js[job_id])])]
    ELSE [ret |-> FALSE, st |-> Same(js, dk)]

\* JobManager.cancel_job: the state after the call and the value returned
cancel_job(js, dk, job_id) ==
    IF job_id \in DOMAIN js /\ js[job_id].status \in {QUEUED, RUNNING}
    THEN [ret |-> TRUE,
          st |-> Saved(js, dk, [js[job_id] EXCEPT
                                    !.status = CANCELLED,
                                    !.message = Msg("Job cancelled", 0, 0),
                                    !.updated_at = Now(js[job_id])])]
    ELSE [ret |-> FALSE, st |-> Same(js, dk)]

\* a delete_job that leaves the metadata file behind
delete_job_keeps_metadata(js, dk, job_id) ==
    IF job_id \in DOMAIN js
    THEN [ret |-> TRUE,
          st |-> [jobs |-> [id \in DOMAIN js \ {job_id} |-> js[id]],
                  disk |-> dk]]
    ELSE [ret |-> FALSE, st |-> Same(js, dk)]

\* JobManager.delete_job: the job leaves the dict and its metadata file is
\* removed
delete_job(js, dk, job_id) ==
    IF job_id \in DOMAIN js
    THEN [ret |-> TRUE,
          st |-> [jobs |-> [id \in DOMAIN js \ {job_id} |-> js[id]],
                  disk |-> [id \in DOMAIN dk \ {job_id} |-> dk[id]]]]
    ELSE [ret |-> FALSE, st |-> Same(js, dk)]

\* a status_filter that is None or empty
NoFilter == ""

\* str.lower(), on the strings the callers of the model send
Lower(str) ==
    CASE str = "RUNNING" -> "running"
      [] str = "COMPLETED" -> "completed"
      [] OTHER -> str

\* list(self.jobs.values()): the jobs in insertion order
RECURSIVE jobs_values(_, _)
jobs_values(js, ids) ==
    IF ids = {} THEN <<>>
    ELSE LET first == CHOOSE id \in ids : \A other \in ids : id <= other
         IN <<js[first]>> \o jobs_values(js, ids \ {first})

\* list.sort(key=created_at, reverse=True): stable, newest first
RECURSIVE sort_newest_first(_)
sort_newest_first(seq) ==
    IF seq = <<>> THEN <<>>
    ELSE LET head == Head(seq)
             rest == sort_newest_first(Tail(seq))
             before == SelectSeq(rest, LAMBDA j : j.created_at > head.created_at)
             after == SelectSeq(rest, LAMBDA j : j.created_at <= head.created_at)
         IN before \o <<head>> \o after

\* seq[:limit]
slice_to(seq, limit) ==
    LET n == IF limit >= 0
             THEN (IF limit < Len(seq) THEN limit ELSE Len(seq))
             ELSE (IF Len(seq) + limit > 0 THEN Len(seq) + limit ELSE 0)
    IN SubSeq(seq, 1, n)

\* JobManager.list_jobs
list_jobs(js, limit, status_filter) ==
    LET all == jobs_values(js, DOMAIN js)
        filtered ==
            IF status_filter # NoFilter /\ Lower(status_filter) \in JobStatus
            THEN SelectSeq(all, LAMBDA j : j.status = Lower(status_filter))
            ELSE all
        limited == slice_to(sort_newest_first(filtered), limit)
    IN [k \in 1..Len(limited) |-> job_to_dict(limited[k])]

(* ----------------------- processor.py: stages -------------------------- *)

ModelStages == {"swiftf0", "svc", "instrumental"}

\* what wrapper.process(...) can do: return True having written output_path,
\* return False, or raise
ProcessOutcomes == {"written", "false", "raise"}

\* the variant argument of the stage's wrapper.load call: _process_svc passes
\* config.variant, the other two stages pass no variant
load_variant(stage, config) ==
    IF stage = "svc" THEN config.svc_variant ELSE ""

\* 'if not wrapper.is_loaded(): wrapper.load(variant=...)': SVCWrapper.load
\* stores the variant and sets loaded before it tries anything
load_if_not_loaded(wrapper, variant) ==
    IF wrapper.loaded THEN wrapper
    ELSE [wrapper EXCEPT !.loaded = TRUE, !.variant = variant]

\* _process_swiftf0 / _process_svc / _process_instrumental: the path returned,
\* the wrapper afterwards, the output_path handed to wrapper.process and the
\* line logged, for the outcome of wrapper.process
process_stage(stage, input_path, wrapper, variant, j, i, outcome) ==
    IF input_path = NoPath \/ ~wrapper.available
    THEN [audio |-> input_path, wrapper |-> wrapper, invoked |-> FALSE,
          output_path |-> NoPath,
          log |-> "not available or no input, skipping"]
    ELSE [audio |-> IF outcome = "written" THEN TempPath(j, i, stage)
                    ELSE input_path,
          wrapper |-> load_if_not_loaded(wrapper, variant),
          invoked |-> TRUE,
          output_path |-> TempPath(j, i, stage),
          log |-> IF outcome = "raise" THEN "processing failed" ELSE ""]

StageEntry(status, output) == [status |-> status, output |-> output]

\* result["stages"][name] = entry
SetStage(stages, name, entry) ==
    [n \in DOMAIN stages \cup {name} |-> IF n = name THEN entry ELSE stages[n]]

NoStages == [n \in {} |-> StageEntry("", NoPath)]

\* AudioPipelineProcessor._process_segment, lines 161-178: the result dict and
\* the segment's source
segment_result(segment_idx, segment_data) ==
    [segment_idx |-> segment_idx,
     output_path |-> NoPath,
     preview_path |-> NoPath,
     stages |-> NoStages]

original_path(segment_data) ==
    LET p == Get(segment_data, "original_path", NoPath)
    IN IF p = NoPath \/ p.kind \notin ExistingUserFiles THEN NoPath ELSE p

\* a filter that keeps every segment result
valid_segments_unfiltered(segments) == segments

\* AudioPipelineProcessor._combine_segments, line 375
valid_segments(segments) ==
    SelectSeq(segments, LAMBDA s : s.output_path # NoPath)

\* AudioPipelineProcessor._combine_segments, lines 383-386: the lines of the
\* concat list handed to ffmpeg
concat_list(valid) == [k \in 1..Len(valid) |-> valid[k].output_path]

(* ---------- plugins/wan2gp-cover-studio: services/pipeline.py ---------- *)

Min(a, b) == IF a <= b THEN a ELSE b

\* a _create_segments whose last segment is not cut at the end of the audio
CoverPipeline_create_segments_unclipped(audio, sr, segment_length) ==
    LET segment_samples == segment_length * sr
        total_samples == Len(audio)
        n == (total_samples + segment_samples - 1) \div segment_samples
    IN [k \in 1..n |->
           LET start_sample == (k - 1) * segment_samples
               end_sample == start_sample + segment_samples
           IN [audio |-> SubSeq(audio, start_sample + 1,
                                IF end_sample <= total_samples
                                THEN end_sample ELSE total_samples),
               start_sample |-> start_sample,
               end_sample |-> end_sample,
               start_frame |-> start_sample,
               end_frame |-> end_sample,
               duration |-> Frac(end_sample - start_sample, sr)]]

\* CoverPipeline._create_segments: one dict per start_sample of
\* range(0, total_samples, segment_samples)
CoverPipeline_create_segments(audio, sr, segment_length) ==
    LET segment_samples == segment_length * sr
        total_samples == Len(audio)
        n == (total_samples + segment_samples - 1) \div segment_samples
    IN [k \in 1..n |->
           LET start_sample == (k - 1) * segment_samples
               end_sample == Min(start_sample + segment_samples, total_samples)
           IN [audio |-> SubSeq(audio, start_sample + 1, end_sample),
               start_sample |-> start_sample,
               end_sample |-> end_sample,
               start_frame |-> start_sample,
               end_frame |-> end_sample,
               duration |-> Frac(end_sample - start_sample, sr)]]

RECURSIVE Flatten(_)
Flatten(arrays) ==
    IF arrays = <<>> THEN <<>> ELSE Head(arrays) \o Flatten(Tail(arrays))

\* np.concatenate(arrays): ValueError ("need at least one array to
\* concatenate") for an empty list
np_concatenate(arrays) ==
    IF arrays = <<>> THEN [raised |-> TRUE, value |-> <<>>]
    ELSE [raised |-> FALSE, value |-> Flatten(arrays)]

\* the dict process_cover registers at line 117 (started_at left out)
CoverProcessing ==
    [status |-> "processing", progress |-> Frac(0, 1),
     message |-> Msg("Starting pipeline...", 0, 0),
     result_path |-> "", error |-> ""]

\* the dict of lines 191-197; result_path is output_dir/job_id/cover.wav
CoverCompleted ==
    [status |-> "completed", progress |-> Frac(1, 1),
     message |-> Msg("Processing completed successfully", 0, 0),
     result_path |-> "cover.wav", error |-> ""]

\* the dict of lines 204-210
CoverFailed(error) ==
    [status |-> "failed", progress |-> Frac(0, 1),
     message |-> MsgStr("Error: ", error),
     result_path |-> "", error |-> error]

\* the value of a missing key
NoCoverJob == [status |-> "None"]

\* CoverPipeline.get_job_status
CoverPipeline_get_job_status(js, job_id) ==
    IF job_id \in DOMAIN js THEN js[job_id] ELSE NoCoverJob

\* self.jobs[job_id] = d
CoverPut(js, job_id, d) ==
    [id \in DOMAIN js \cup {job_id} |-> IF id = job_id THEN d ELSE js[id]]

\* CoverPipeline._update_job
CoverPipeline_update_job(js, job_id, progress, message) ==
    IF job_id \in DOMAIN js
    THEN [js EXCEPT ![job_id].progress = progress,
                    ![job_id].message = message]
    ELSE js

\* CoverPipeline.delete_job: the value returned, the jobs and the result
\* files afterwards
CoverPipeline_delete_job(js, outputs, job_id) ==
    IF job_id \in DOMAIN js
    THEN [ret |-> TRUE,
          jobs |-> [id \in DOMAIN js \ {job_id} |-> js[id]],
          outputs |-> IF js[job_id].result_path # ""
                      THEN outputs \ {job_id} ELSE outputs]
    ELSE [ret |-> FALSE, jobs |-> js, outputs |-> outputs]

\* a direct application of _create_segments and of np.concatenate to its
\* segments: the arguments, and the values returned so far
Segmenting(pc, audio, sr, segment_length) ==
    [pc |-> pc, audio |-> audio, sr |-> sr, segment_length |-> segment_length,
     segments |-> <<>>, merged |-> [raised |-> FALSE, value |-> <<>>]]

NoSegmenting == Segmenting("idle", <<>>, 1, 1)

CoverResponse(op, result, job_id) ==
    [op |-> op, result |-> result, job_id |-> job_id]

\* routes.py line 16: pipeline = CoverPipeline(config), with the worker
\* threads of its process_cover calls, the cover.wav files written, the ids
\* issued, the last response of its routes and a direct application of
\* _create_segments
NewCover(segmenting) ==
    [jobs |-> [id \in {} |-> CoverProcessing],
     task |-> [id \in {} |-> 0],
     outputs |-> {},
     next_id |-> 1,
     response |-> CoverResponse("", "", 0),
     segmenting |-> segmenting]

(* ------------------------------- state -------------------------------- *)
(* jobs      JobManager.jobs: job id -> ProcessingJob                       *)
(* disk      the metadata files: job id -> last snapshot written            *)
(* task      the background tasks: job id -> position and locals of         *)
(*           process_job / process / _process_segment, with the line the    *)
(*           last stage function logged (stage_log), the number of          *)
(*           _clear_gpu_cache calls made (reclaims) and whether the last    *)
(*           one failed inside (reclaim_failed), and for the segment in     *)
(*           hand how often each wrapper's process was called (invocations) *)
(*           and which stages' calls raised (raised), and the variant the   *)
(*           svc wrapper held when the task last called its process         *)
(*           (svc_variant_used), and the input_path and output_path of its  *)
(*           last call of a wrapper's process for that segment              *)
(*           (stage_input, stage_output)                                    *)
(* wrappers  the module-level stage wrappers of main.py                     *)
(* next_id   the number of job ids drawn so far, plus one                   *)
(* response  the last call of a caller: its name, its arguments and what    *)
(*           it returned                                                    *)
(* cover     the plugin: CoverPipeline.jobs (jobs), the process_cover calls *)
(*           on worker threads (task), the job ids whose cover.wav exists   *)
(*           (outputs), the number of ids drawn plus one (next_id), the     *)
(*           last response of a route (response), and an application of     *)
(*           _create_segments by itself (segmenting)                        *)

NoJobs == [id \in {} |-> 0]

Response(op, result, job_id) ==
    [op |-> op, result |-> result, job_id |-> job_id, arg |-> 0,
     text |-> "", listed |-> <<>>]

\* the same for a call with a numeric argument besides the job id
ResponseArg(op, result, job_id, arg) ==
    [op |-> op, result |-> result, job_id |-> job_id, arg |-> arg,
     text |-> "", listed |-> <<>>]

\* the same for a call that takes a number and a string and returns a list
ResponseList(op, arg, text, listed) ==
    [op |-> op, result |-> "list", job_id |-> 0, arg |-> arg,
     text |-> text, listed |-> listed]

Apply(st) == jobs' = st.jobs /\ disk' = st.disk

SetTask(j, t) == task' = [task EXCEPT ![j] = t]

\* the wrappers as constructed at import: availability is a fact of the host
InitFor(availabilities) ==
    /\ jobs = NoJobs
    /\ disk = NoJobs
    /\ task = NoJobs
    /\ next_id = 1
    /\ response = Response("", "", 0)
    /\ \E av \in availabilities :
          wrappers = [s \in ModelStages |->
                         [available |-> av[s], loaded |-> FALSE,
                          variant |-> ""]]
    /\ cover = NewCover(NoSegmenting)

(* ------------------------ main.py: the requests ------------------------ *)

\* process_job's frame when background_tasks.add_task has queued it
NewTask(config, segments) ==
    [pc |-> "start",
     config |-> config,
     segments |-> segments,
     segment_idx |-> 0,
     stage_idx |-> 0,
     current_audio |-> NoPath,
     result |-> segment_result(0, <<>>),
     results |-> [output_path |-> NoPath, segments |-> <<>>],
     stage_log |-> "",
     concat_list |-> <<>>,
     reclaims |-> 0,
     reclaim_failed |-> FALSE,
     invocations |-> [s \in ModelStages |-> 0],
     raised |-> {},
     svc_variant_used |-> "",
     stage_input |-> NoPath,
     stage_output |-> NoPath,
     error |-> ""]

\* POST /jobs/start.  The body is parsed into JobCreateRequest first: a config
\* that validate_pipeline_stages refuses never reaches the handler (422).
start_job(configs, segment_lists, limit) ==
    /\ next_id <= limit
    /\ \E config \in configs, segments \in segment_lists :
          IF validate_pipeline_stages(config.pipeline_stages)
          THEN /\ Apply(create_job(jobs, disk, next_id, config, segments))
               /\ task' = [id \in DOMAIN task \cup {next_id} |->
                              IF id = next_id THEN NewTask(config, segments)
                              ELSE task[id]]
               /\ next_id' = next_id + 1
               /\ response' = Response("start_job", "200 queued", next_id)
               /\ UNCHANGED <<wrappers, cover>>
          ELSE /\ response' = Response("start_job", "422", 0)
               /\ UNCHANGED <<jobs, disk, task, wrappers, cover, next_id>>

\* DELETE /jobs/{job_id}: 404 when cancel_job returns False
cancel_job_request(limit) ==
    \E job_id \in 1..limit :
        LET r == cancel_job(jobs, disk, job_id)
        IN /\ Apply(r.st)
           /\ response' = Response("cancel_job",
                                   IF r.ret THEN "200 cancelled" ELSE "404",
                                   job_id)
           /\ UNCHANGED <<task, wrappers, cover, next_id>>

\* a download that does not look at the job's status
download_result_any_status(js, job_id, exists) ==
    IF job_id \notin DOMAIN js THEN "404 Job not found"
    ELSE IF js[job_id].results.output_path = NoPath \/ ~exists
    THEN "404 Output file not found"
    ELSE "200 file"

\* GET /jobs/{job_id}/download: the response, exists being what
\* Path(output_path).exists() answers
download_result(js, job_id, exists) ==
    IF get_job(js, job_id) = NoJob THEN "404 Job not found"
    ELSE IF js[job_id].status # COMPLETED THEN "400 Job not completed"
    ELSE IF js[job_id].results.output_path = NoPath \/ ~exists
    THEN "404 Output file not found"
    ELSE "200 file"

download_result_request(limit) ==
    \E job_id \in 1..(limit + 1), exists \in BOOLEAN :
        /\ response' = Response("download_result",
                                 download_result(jobs, job_id, exists), job_id)
        /\ UNCHANGED <<jobs, disk, task, wrappers, cover, next_id>>

(* -------------------- main.py: process_job, by step -------------------- *)

At(j, pc) == j \in DOMAIN task /\ task[j].pc = pc

\* a loop that leaves for the combiner after its first segment
AfterSegment_first_only(t, next_idx) ==
    IF next_idx < 1 /\ next_idx < Len(t.segments)
    THEN [t EXCEPT !.pc = "seg_progress", !.segment_idx = next_idx]
    ELSE [t EXCEPT !.pc = "combine_progress"]

\* a loop that marks the next segment Running without reporting progress
AfterSegment_skip_progress(t, next_idx) ==
    IF next_idx < Len(t.segments)
    THEN [t EXCEPT !.pc = "seg_running", !.segment_idx = next_idx]
    ELSE [t EXCEPT !.pc = "combine_progress"]

\* where process() goes once a segment is done (or there is none)
AfterSegment(t, next_idx) ==
    IF next_idx < Len(t.segments)
    THEN [t EXCEPT !.pc = "seg_progress", !.segment_idx = next_idx]
    ELSE [t EXCEPT !.pc = "combine_progress"]

\* process_job line 399, then process() up to its loop
TaskStart(j) ==
    /\ At(j, "start")
    /\ Apply(update_job_status(jobs, disk, j, RUNNING, Msg("Starting pipeline", 0, 0)))
    /\ SetTask(j, AfterSegment(task[j], 0))
    /\ UNCHANGED <<wrappers, cover, next_id, response>>

\* process() lines 65-71
SegmentProgress(j) ==
    /\ At(j, "seg_progress")
    /\ LET t == task[j]
           n == Len(t.segments)
       IN /\ Apply(update_job_progress(jobs, disk, j,
                       Frac(t.segment_idx * 100, n),
                       Msg("processing_segment_", t.segment_idx, 0),
                       Msg("Processing segment", t.segment_idx + 1, n)))
          /\ SetTask(j, [t EXCEPT !.pc = "seg_running"])
    /\ UNCHANGED <<wrappers, cover, next_id, response>>

\* process() lines 74-78, then _process_segment lines 161-178
SegmentRunning(j) ==
    /\ At(j, "seg_running")
    /\ LET t == task[j]
           data == t.segments[t.segment_idx + 1]
       IN /\ Apply(update_segment_status(jobs, disk, j, t.segment_idx, RUNNING,
                                         NoPath, NoPath))
          /\ SetTask(j, [t EXCEPT
                !.pc = IF Len(t.config.pipeline_stages) > 0
                       THEN "stage" ELSE "seg_save",
                !.stage_idx = 0,
                !.current_audio = original_path(data),
                !.stage_log = "",
                !.invocations = [s \in ModelStages |-> 0],
                !.raised = {},
                !.stage_input = NoPath,
                !.stage_output = NoPath,
                !.result = segment_result(t.segment_idx, data)])
    /\ UNCHANGED <<wrappers, cover, next_id, response>>

\* _process_segment lines 180-222: one iteration of the stage loop
stage_iteration(t, j, wr, outcome) ==
    LET stage == t.config.pipeline_stages[t.stage_idx + 1]
        on(name) == stage = name /\ t.config.enabled[name]
        last == t.stage_idx + 1 >= Len(t.config.pipeline_stages)
        moved == [t EXCEPT !.pc = IF last THEN "seg_save" ELSE "stage",
                           !.stage_log = "",
                           !.stage_idx = @ + 1]
    IN IF on("swiftf0") \/ on("svc") \/ on("instrumental")
       THEN LET r == process_stage(stage, t.current_audio, wr[stage],
                                   load_variant(stage, t.config), j,
                                   t.segment_idx, outcome)
            IN [task |-> [moved EXCEPT
                            !.current_audio = r.audio,
                            !.stage_log = r.log,
                            !.invocations[stage] =
                               IF r.invoked THEN @ + 1 ELSE @,
                            !.raised =
                               IF r.invoked /\ outcome = "raise"
                               THEN @ \cup {stage} ELSE @,
                            !.stage_input =
                               IF r.invoked THEN t.current_audio ELSE @,
                            !.stage_output =
                               IF r.invoked THEN r.output_path ELSE @,
                            !.svc_variant_used =
                               IF r.invoked /\ stage = "svc"
                               THEN r.wrapper.variant ELSE @,
                            !.result.stages =
                               SetStage(@, stage, StageEntry("completed", r.audio))],
                wrappers |-> [wr EXCEPT ![stage] = r.wrapper]]
       ELSE IF on("mixing")
       THEN [task |-> [moved EXCEPT
                          !.result.stages =
                              SetStage(@, stage, StageEntry("skipped", NoPath))],
             wrappers |-> wr]
       ELSE [task |-> moved, wrappers |-> wr]

Stage(j) ==
    /\ At(j, "stage")
    /\ \E outcome \in ProcessOutcomes :
          LET r == stage_iteration(task[j], j, wrappers, outcome)
          IN /\ SetTask(j, r.task)
             /\ wrappers' = r.wrappers
    /\ UNCHANGED <<jobs, disk, next_id, response, cover>>

\* _process_segment lines 224-238: _convert_audio runs ffmpeg with check=True,
\* and its error leaves process() through to process_job's handler
SegmentSave(j) ==
    /\ At(j, "seg_save")
    /\ LET t == task[j]
       IN IF t.current_audio # NoPath
          THEN \E converted \in BOOLEAN :
                 IF converted
                 THEN SetTask(j, [t EXCEPT
                         !.pc = "seg_completed",
                         !.result.output_path = TempPath(j, t.segment_idx, "final"),
                         !.result.preview_path = TempPath(j, t.segment_idx, "final")])
                 ELSE SetTask(j, [t EXCEPT !.pc = "fail",
                                           !.error = "ffmpeg convert failed"])
          ELSE SetTask(j, [t EXCEPT !.pc = "seg_completed"])
    /\ UNCHANGED <<jobs, disk, wrappers, cover, next_id, response>>

\* process() lines 91-100
SegmentCompleted(j) ==
    /\ At(j, "seg_completed")
    /\ LET t == task[j]
           u == [t EXCEPT !.results.segments = Append(@, t.result)]
       IN /\ Apply(update_segment_status(jobs, disk, j, t.segment_idx, COMPLETED,
                                         t.result.preview_path, t.result.output_path))
          /\ SetTask(j, IF t.config.clear_cache_between_segments
                        THEN [u EXCEPT !.pc = "clear_cache"]
                        ELSE AfterSegment(u, t.segment_idx + 1))
    /\ UNCHANGED <<wrappers, cover, next_id, response>>

\* a reclamation whose failure leaves process() as an error
clear_gpu_cache_raising(t, failed) ==
    IF failed
    THEN [t EXCEPT !.reclaims = @ + 1, !.reclaim_failed = TRUE,
                   !.pc = "fail", !.error = "CUDA error"]
    ELSE [t EXCEPT !.reclaims = @ + 1, !.reclaim_failed = FALSE]

\* AudioPipelineProcessor._clear_gpu_cache: a failure of torch is logged and
\* swallowed
clear_gpu_cache(t, failed) ==
    [t EXCEPT !.reclaims = @ + 1, !.reclaim_failed = failed]

\* process() lines 103-104
ClearCache(j) ==
    /\ At(j, "clear_cache")
    /\ \E failed \in BOOLEAN :
          SetTask(j, clear_gpu_cache(
                        AfterSegment(task[j], task[j].segment_idx + 1), failed))
    /\ UNCHANGED <<jobs, disk, wrappers, cover, next_id, response>>

\* process() lines 107-112
CombineProgress(j) ==
    /\ At(j, "combine_progress")
    /\ Apply(update_job_progress(jobs, disk, j, Frac(90, 1),
                                 Msg("combining_segments", 0, 0),
                                 Msg("Combining processed segments", 0, 0)))
    /\ SetTask(j, [task[j] EXCEPT !.pc = "combine"])
    /\ UNCHANGED <<wrappers, cover, next_id, response>>

\* process() lines 114-120: _combine_segments
Combine(j) ==
    /\ At(j, "combine")
    /\ LET t == task[j]
           valid == valid_segments(t.results.segments)
           u == [t EXCEPT !.concat_list = concat_list(valid)]
       IN IF valid = <<>>
          THEN SetTask(j, [t EXCEPT !.pc = "fail",
                                    !.error = "No valid segments to combine"])
          ELSE \E concatenated \in BOOLEAN :
                 IF concatenated
                 THEN SetTask(j, [u EXCEPT !.pc = "final_progress",
                                           !.results.output_path = CombinedPath(j)])
                 ELSE SetTask(j, [u EXCEPT !.pc = "fail",
                                           !.error = "ffmpeg concat failed"])
    /\ UNCHANGED <<jobs, disk, wrappers, cover, next_id, response>>

\* process() lines 123-130
FinalProgress(j) ==
    /\ At(j, "final_progress")
    /\ Apply(update_job_progress(jobs, disk, j, Frac(100, 1),
                                 Msg("completed", 0, 0),
                                 Msg("Processing completed successfully", 0, 0)))
    /\ SetTask(j, [task[j] EXCEPT !.pc = "complete"])
    /\ UNCHANGED <<wrappers, cover, next_id, response>>

\* process_job line 413
TaskComplete(j) ==
    /\ At(j, "complete")
    /\ Apply(complete_job(jobs, disk, j, task[j].results))
    /\ SetTask(j, [task[j] EXCEPT !.pc = "done"])
    /\ UNCHANGED <<wrappers, cover, next_id, response>>

\* process_job lines 415-417
TaskFail(j) ==
    /\ At(j, "fail")
    /\ Apply(fail_job(jobs, disk, j, task[j].error))
    /\ SetTask(j, [task[j] EXCEPT !.pc = "done"])
    /\ UNCHANGED <<wrappers, cover, next_id, response>>

TaskStep(j) ==
    \/ TaskStart(j)
    \/ SegmentProgress(j)
    \/ SegmentRunning(j)
    \/ Stage(j)
    \/ SegmentSave(j)
    \/ SegmentCompleted(j)
    \/ ClearCache(j)
    \/ CombineProgress(j)
    \/ Combine(j)
    \/ FinalProgress(j)
    \/ TaskComplete(j)
    \/ TaskFail(j)

(* ------------- JobManager called directly by a client ------------------ *)
(* The public methods of JobManager under arbitrary calls, for what the     *)
(* class itself guarantees whoever calls it.  job ids range over            *)
(* 1..limit+1, so that limit+1 is an id no job ever has.                    *)

Bool(b) == IF b THEN "True" ELSE "False"

\* the calls that stamp updated_at are followed while the stamp is small
Stampable(job_id, max_clock) ==
    job_id \in DOMAIN jobs => jobs[job_id].updated_at < max_clock

Quiet == UNCHANGED <<task, wrappers, cover>>

call_create_job(configs, segment_lists, limit) ==
    /\ next_id <= limit
    /\ \E config \in configs, segments \in segment_lists :
          /\ Apply(create_job(jobs, disk, next_id, config, segments))
          /\ response' = Response("create_job", "id", next_id)
    /\ next_id' = next_id + 1
    /\ Quiet

call_update_job_status(limit) ==
    \E job_id \in 1..(limit + 1), status \in JobStatus :
        /\ Apply(update_job_status(jobs, disk, job_id, status,
                                   Msg("status set", 0, 0)))
        /\ response' = Response("update_job_status", "None", job_id)
        /\ UNCHANGED next_id /\ Quiet

call_update_job_progress(limit, max_clock) ==
    \E job_id \in 1..(limit + 1), percent \in {0, 50} :
        /\ Stampable(job_id, max_clock)
        /\ Apply(update_job_progress(jobs, disk, job_id, Frac(percent, 1),
                                     Msg("working", 0, 0), Msg("working", 0, 0)))
        /\ response' = Response("update_job_progress", "None", job_id)
        /\ UNCHANGED next_id /\ Quiet

call_update_segment_status(limit, max_clock, max_index) ==
    \E job_id \in 1..(limit + 1), segment_index \in (-1)..max_index,
       status \in {RUNNING, COMPLETED, FAILED} :
        /\ Stampable(job_id, max_clock)
        /\ Apply(update_segment_status(jobs, disk, job_id, segment_index, status,
                     NoPath,
                     IF status = COMPLETED
                     THEN TempPath(job_id, segment_index, "final") ELSE NoPath))
        /\ response' = ResponseArg("update_segment_status", "None", job_id,
                                   segment_index)
        /\ UNCHANGED next_id /\ Quiet

call_complete_job(limit, max_clock) ==
    \E job_id \in 1..(limit + 1) :
        /\ Stampable(job_id, max_clock)
        /\ Apply(complete_job(jobs, disk, job_id,
                     [output_path |-> CombinedPath(job_id), segments |-> <<>>]))
        /\ response' = Response("complete_job", "None", job_id)
        /\ UNCHANGED next_id /\ Quiet

call_fail_job(limit, max_clock) ==
    \E job_id \in 1..(limit + 1) :
        /\ Stampable(job_id, max_clock)
        /\ Apply(fail_job(jobs, disk, job_id, "error"))
        /\ response' = Response("fail_job", "None", job_id)
        /\ UNCHANGED next_id /\ Quiet

call_cancel_job(limit, max_clock) ==
    \E job_id \in 1..(limit + 1) :
        /\ Stampable(job_id, max_clock)
        /\ LET r == cancel_job(jobs, disk, job_id)
           IN /\ Apply(r.st)
              /\ response' = Response("cancel_job", Bool(r.ret), job_id)
        /\ UNCHANGED next_id /\ Quiet

call_get_job(limit) ==
    \E job_id \in 1..(limit + 1) :
        /\ response' = Response("get_job",
                                 IF get_job(jobs, job_id) = NoJob
                                 THEN "None" ELSE "job",
                                 job_id)
        /\ UNCHANGED <<jobs, disk, next_id>> /\ Quiet

call_delete_job(limit) ==
    \E job_id \in 1..(limit + 1) :
        LET r == delete_job(jobs, disk, job_id)
        IN /\ Apply(r.st)
           /\ response' = Response("delete_job", Bool(r.ret), job_id)
           /\ UNCHANGED next_id /\ Quiet

call_list_jobs(limits, status_filters) ==
    \E limit \in limits, status_filter \in status_filters :
        /\ response' = ResponseList("list_jobs", limit, status_filter,
                                    list_jobs(jobs, limit, status_filter))
        /\ UNCHANGED <<jobs, disk, next_id>> /\ Quiet

(* ------------- the caller's config object after create_job ------------ *)
(* ProcessingJob.__init__ keeps the config object it is given, and start_job *)
(* hands the same object to process_job: the job's config, the task's config *)
(* and the object the caller built are one object, so an assignment through  *)
(* any of them shows through all.  The metadata file holds config.dict() as  *)
(* it was at the last save.                                                  *)

SetAliasedConfig(job_id, config) ==
    /\ jobs' = [jobs EXCEPT ![job_id].config = config]
    /\ task' = IF job_id \in DOMAIN task
               THEN [task EXCEPT ![job_id].config = config]
               ELSE task

\* the caller assigns config.<stage>.enabled = False
set_enabled_false(limit, stages) ==
    \E job_id \in 1..limit, stage \in stages :
        /\ job_id \in DOMAIN jobs
        /\ SetAliasedConfig(job_id,
               [jobs[job_id].config EXCEPT !.enabled[stage] = FALSE])
        /\ response' = Response("set_enabled_false", "None", job_id)
        /\ UNCHANGED <<disk, wrappers, cover, next_id>>

\* the caller calls config.get_rtx3070_profile(): self.copy() is shallow, so
\* the assignments to config.processing reach the caller's object
get_rtx3070_profile(limit) ==
    \E job_id \in 1..limit :
        /\ job_id \in DOMAIN jobs
        /\ SetAliasedConfig(job_id,
               [jobs[job_id].config EXCEPT !.clear_cache_between_segments = TRUE])
        /\ response' = Response("get_rtx3070_profile", "config", job_id)
        /\ UNCHANGED <<disk, wrappers, cover, next_id>>

(* --------------- plugin: api/routes.py and process_cover --------------- *)

SetCover(c) == cover' = c /\ UNCHANGED <<jobs, disk, task, wrappers, next_id, response>>

\* process_cover's frame when background_tasks.add_task has queued it
NewCoverTask(use_segments, instrumental) ==
    [pc |-> "queued", use_segments |-> use_segments,
     instrumental |-> instrumental, n |-> 0, i |-> 0, error |-> ""]

\* POST /process: 404 when the upload directory is missing
process_audio(limit) ==
    /\ cover.next_id <= limit
    /\ \E exists \in BOOLEAN, use_segments \in BOOLEAN, instrumental \in BOOLEAN :
          LET job_id == cover.next_id
          IN IF exists
             THEN SetCover([cover EXCEPT
                     !.task = [id \in DOMAIN cover.task \cup {job_id} |->
                                  IF id = job_id
                                  THEN NewCoverTask(use_segments, instrumental)
                                  ELSE cover.task[id]],
                     !.next_id = job_id + 1,
                     !.response = CoverResponse("process_audio", "queued", job_id)])
             ELSE SetCover([cover EXCEPT
                     !.response = CoverResponse("process_audio",
                                                "404 Audio file not found", 0)])

\* GET /status/{job_id}
cover_get_job_status(limit) ==
    \E job_id \in 1..limit :
        LET status == CoverPipeline_get_job_status(cover.jobs, job_id)
        IN SetCover([cover EXCEPT
              !.response = CoverResponse("get_job_status",
                              IF status = NoCoverJob THEN "404 Job not found"
                              ELSE status.status,
                              job_id)])

\* DELETE /job/{job_id}
cover_delete_job(limit) ==
    \E job_id \in 1..limit :
        LET r == CoverPipeline_delete_job(cover.jobs, cover.outputs, job_id)
        IN SetCover([cover EXCEPT
              !.jobs = r.jobs,
              !.outputs = r.outputs,
              !.response = CoverResponse("delete_job",
                              IF r.ret THEN "200 Job deleted successfully"
                              ELSE "404 Job not found",
                              job_id)])

CoverAt(j, pc) == j \in DOMAIN cover.task /\ cover.task[j].pc = pc

\* one step of process_cover: the jobs and the frame after it
CoverStepTo(j, js, t) ==
    SetCover([cover EXCEPT !.jobs = js, !.task[j] = t])

CoverRaise(j, error) ==
    CoverStepTo(j, cover.jobs,
                [cover.task[j] EXCEPT !.pc = "except", !.error = error])

CoverUpdate(j, progress, message, pc) ==
    CoverStepTo(j, CoverPipeline_update_job(cover.jobs, j, progress, message),
                [cover.task[j] EXCEPT !.pc = pc])

\* process_cover lines 117-122
CoverStart(j) ==
    /\ CoverAt(j, "queued")
    /\ CoverStepTo(j, CoverPut(cover.jobs, j, CoverProcessing),
                   [cover.task[j] EXCEPT !.pc = "find"])

\* lines 125-133: the upload directory holds an original.* file or not
CoverFind(j) ==
    /\ CoverAt(j, "find")
    /\ \E found \in BOOLEAN :
          IF found
          THEN CoverUpdate(j, Frac(5, 100), Msg("Loading audio file...", 0, 0),
                           "load")
          ELSE CoverRaise(j, "Original audio file not found")

\* lines 134-136
CoverLoad(j) ==
    /\ CoverAt(j, "load")
    /\ CoverUpdate(j, Frac(1, 10),
                   Msg("Separating vocals and instrumental...", 0, 0),
                   "separate")

\* lines 137-139
CoverSeparate(j) ==
    /\ CoverAt(j, "separate")
    /\ CoverUpdate(j, Frac(2, 10),
                   Msg("Extracting pitch with SwiftF0...", 0, 0), "pitch")

\* lines 140-143 and 166: extract_pitch raises when the audio gives it no
\* voiced frame
CoverPitch(j) ==
    /\ CoverAt(j, "pitch")
    /\ \E raised \in BOOLEAN :
          IF raised
          THEN CoverRaise(j, "zero-size array to reduction operation")
          ELSE IF cover.task[j].use_segments
          THEN CoverUpdate(j, Frac(3, 10), Msg("Segmenting audio...", 0, 0),
                           "segmenting")
          ELSE CoverUpdate(j, Frac(4, 10), Msg("Converting voice...", 0, 0),
                           "converted")

\* lines 144-147: audio that got through extract_pitch has samples, so
\* _create_segments returns at least one segment
CoverSegmenting(j) ==
    /\ CoverAt(j, "segmenting")
    /\ \E n \in 1..MaxSegs :
          CoverStepTo(j,
              CoverPipeline_update_job(cover.jobs, j, Frac(4, 10),
                                       Msg("Processing segments...", n, 0)),
              [cover.task[j] EXCEPT !.pc = "segment", !.n = n, !.i = 0])

\* lines 149-163: one iteration of the loop, or the step that leaves it
CoverSegment(j) ==
    /\ CoverAt(j, "segment")
    /\ LET t == cover.task[j]
       IN IF t.i < t.n
          THEN CoverStepTo(j,
                  CoverPipeline_update_job(cover.jobs, j,
                      Frac(4 * t.n + 3 * t.i, 10 * t.n),
                      Msg("Processing segment", t.i + 1, t.n)),
                  [t EXCEPT !.i = @ + 1])
          ELSE CoverUpdate(j, Frac(7, 10), Msg("Merging segments...", 0, 0),
                           "converted")

\* lines 164-182
CoverConverted(j) ==
    /\ CoverAt(j, "converted")
    /\ IF cover.task[j].instrumental
       THEN CoverUpdate(j, Frac(8, 10), Msg("Generating instrumental...", 0, 0),
                        "instrumental")
       ELSE CoverUpdate(j, Frac(9, 10), Msg("Mixing final output...", 0, 0),
                        "mix")

\* lines 177-182
CoverInstrumental(j) ==
    /\ CoverAt(j, "instrumental")
    /\ CoverUpdate(j, Frac(9, 10), Msg("Mixing final output...", 0, 0), "mix")

\* lines 183-189: sf.write
CoverMix(j) ==
    /\ CoverAt(j, "mix")
    /\ SetCover([cover EXCEPT !.outputs = @ \cup {j},
                              !.task[j].pc = "complete"])

\* lines 191-197
CoverComplete(j) ==
    /\ CoverAt(j, "complete")
    /\ CoverStepTo(j, CoverPut(cover.jobs, j, CoverCompleted),
                   [cover.task[j] EXCEPT !.pc = "done"])

\* lines 199-210
CoverExcept(j) ==
    /\ CoverAt(j, "except")
    /\ CoverStepTo(j, CoverPut(cover.jobs, j, CoverFailed(cover.task[j].error)),
                   [cover.task[j] EXCEPT !.pc = "done"])

CoverStep(j) ==
    \/ CoverStart(j)
    \/ CoverFind(j)
    \/ CoverLoad(j)
    \/ CoverSeparate(j)
    \/ CoverPitch(j)
    \/ CoverSegmenting(j)
    \/ CoverSegment(j)
    \/ CoverConverted(j)
    \/ CoverInstrumental(j)
    \/ CoverMix(j)
    \/ CoverComplete(j)
    \/ CoverExcept(j)

\* segments = self._create_segments(audio, sr, segment_length)
call_create_segments ==
    /\ cover.segmenting.pc = "input"
    /\ LET c == cover.segmenting
       IN SetCover([cover EXCEPT
             !.segmenting.segments =
                 CoverPipeline_create_segments(c.audio, c.sr, c.segment_length),
             !.segmenting.pc = "segmented"])

\* np.concatenate of the segments' audio, in order
call_np_concatenate ==
    /\ cover.segmenting.pc = "segmented"
    /\ LET segments == cover.segmenting.segments
       IN SetCover([cover EXCEPT
             !.segmenting.merged =
                 np_concatenate([k \in 1..Len(segments) |-> segments[k].audio]),
             !.segmenting.pc = "merged"])

(* --------------------------- specifications --------------------------- *)

Stages4 == {"swiftf0", "svc", "instrumental", "mixing"}

\* AudioProcessingConfig with processing.max_concurrent_segments given
ConfigWith(pipeline, off, clear, max_concurrent) ==
    [pipeline_stages |-> pipeline,
     enabled |-> [s \in Stages4 |-> s \notin off],
     clear_cache_between_segments |-> clear,
     max_concurrent_segments |-> max_concurrent,
     svc_variant |-> "so-vits-svc"]

\* the same config with svc.variant given
WithVariant(config, variant) == [config EXCEPT !.svc_variant = variant]

\* AudioProcessingConfig with max_concurrent_segments at its default
Config(pipeline, off, clear) == ConfigWith(pipeline, off, clear, 2)

SegmentData(start_time, end_time, path) ==
    [start_time |-> start_time, end_time |-> end_time, original_path |-> path]

\* segment definitions of a request: a playable one, one whose file is
\* missing and whose bounds are reversed
SegmentDefs ==
    {SegmentData(0, 10, UserPath("a.wav")),
     SegmentData(10, 5, UserPath("gone.wav"))}

SeqsUpTo(S, n) == UNION {[1..m -> S] : m \in 0..n}

Configs ==
    {Config(<<"swiftf0", "mixing">>, {}, TRUE),
     Config(<<"svc", "bogus">>, {}, TRUE)}

\* hosts: one with every stage package installed, one without swiftf0
Availabilities ==
    {[s \in ModelStages |-> TRUE], [s \in ModelStages |-> s # "swiftf0"]}

Init == InitFor(Availabilities)

Next ==
    \/ start_job(Configs, SeqsUpTo(SegmentDefs, MaxSegs), 1)
    \/ cancel_job_request(1)
    \/ \E j \in 1..1 : TaskStep(j)

Spec == Init /\ [][Next]_vars

\* The same server under the event loop's scheduling: a background task
\* added by start_job is run once the response is sent, and each of its
\* steps returns or raises, so a task that can step eventually does.
SpecLive == Init /\ [][Next]_vars /\ WF_vars(\E j \in 1..1 : TaskStep(j))

\* One job of 0..MaxProgressSegs playable segments, to follow the progress
\* values process() reports over a whole run.
ProgressConfigs == {Config(<<"mixing">>, {}, TRUE)}

ProgressSegments ==
    {[k \in 1..n |-> SegmentData(0, 10, UserPath("a.wav"))] :
        n \in 0..MaxProgressSegs}

InitProgress == InitFor({[s \in ModelStages |-> TRUE]})

NextProgress ==
    \/ start_job(ProgressConfigs, ProgressSegments, 1)
    \/ cancel_job_request(1)
    \/ \E j \in 1..1 : TaskStep(j)

SpecProgress == InitProgress /\ [][NextProgress]_vars

\* JobManager alone, one job of at most one segment, under every call
ManagerConfigs == {Config(<<"swiftf0">>, {}, TRUE)}

InitManager == InitFor({[s \in ModelStages |-> TRUE]})

NextManager ==
    \/ call_create_job(ManagerConfigs, SeqsUpTo(SegmentDefs, 1), 1)
    \/ call_update_job_status(1)
    \/ call_update_job_progress(1, MaxClock)
    \/ call_update_segment_status(1, MaxClock, 1)
    \/ call_complete_job(1, MaxClock)
    \/ call_fail_job(1, MaxClock)
    \/ call_cancel_job(1, MaxClock)
    \/ call_get_job(1)
    \/ call_delete_job(1)

SpecManager == InitManager /\ [][NextManager]_vars

\* A program that builds a config, starts one job with it as start_job does,
\* and goes on using its config object while the job runs.
LiveConfigs == {Config(<<"swiftf0", "mixing">>, {}, FALSE)}

LiveSegments == SeqsUpTo({SegmentData(0, 10, UserPath("a.wav"))}, MaxSegs)

InitLiveConfig == InitFor({[s \in ModelStages |-> TRUE]})

NextLiveConfig ==
    \/ start_job(LiveConfigs, LiveSegments, 1)
    \/ set_enabled_false(1, {"swiftf0"})
    \/ get_rtx3070_profile(1)
    \/ \E j \in 1..1 : TaskStep(j)

SpecLiveConfig == InitLiveConfig /\ [][NextLiveConfig]_vars

\* JobManager with up to MaxJobs jobs in every combination of statuses, and a
\* client that lists them.
StatusFilters == {NoFilter, "running", "COMPLETED", "bogus"}

NextList ==
    \/ call_create_job(ManagerConfigs, {<<>>}, MaxJobs)
    \/ call_update_job_status(MaxJobs)
    \/ call_list_jobs(0..MaxJobs, StatusFilters)

SpecList == InitManager /\ [][NextList]_vars

\* The server with two jobs of at most one segment, whose background tasks
\* run side by side.
JobsConfigs == {ConfigWith(<<"mixing">>, {}, TRUE, 1)}

JobsSegments == SeqsUpTo({SegmentData(0, 10, UserPath("a.wav"))}, 1)

InitJobs == InitFor({[s \in ModelStages |-> TRUE]})

NextJobs ==
    \/ start_job(JobsConfigs, JobsSegments, 2)
    \/ cancel_job_request(2)
    \/ \E j \in 1..2 : TaskStep(j)

SpecJobs == InitJobs /\ [][NextJobs]_vars

\* The server with one job and a client that asks for the final artifact at
\* any time.
NextDownload ==
    \/ start_job(Configs, SeqsUpTo(SegmentDefs, MaxSegs), 1)
    \/ cancel_job_request(1)
    \/ download_result_request(1)
    \/ \E j \in 1..1 : TaskStep(j)

SpecDownload == Init /\ [][NextDownload]_vars

\* One job started as start_job does, and a caller of the JobManager that
\* deletes jobs while a background task is still at work and looks jobs up.
delete_job_while_running(limit) ==
    /\ \E j \in DOMAIN task : task[j].pc # "done"
    /\ call_delete_job(limit)

NextDelete ==
    \/ start_job(Configs, SeqsUpTo(SegmentDefs, MaxSegs), 1)
    \/ delete_job_while_running(1)
    \/ call_get_job(1)
    \/ \E j \in 1..1 : TaskStep(j)

SpecDelete == Init /\ [][NextDelete]_vars

\* The server with two jobs that name different SVC variants, on a host
\* where the svc wrapper is available.
VariantConfigs ==
    {WithVariant(Config(<<"svc">>, {}, TRUE), v) : v \in {"so-vits-svc", "hq-svc"}}

VariantSegments == {<<SegmentData(0, 10, UserPath("a.wav"))>>}

InitVariants == InitFor({[s \in ModelStages |-> TRUE]})

NextVariants ==
    \/ start_job(VariantConfigs, VariantSegments, 2)
    \/ \E j \in 1..2 : TaskStep(j)

SpecVariants == InitVariants /\ [][NextVariants]_vars

\* The plugin's routes with one cover job.
NextCover ==
    \/ process_audio(1)
    \/ cover_get_job_status(1)
    \/ cover_delete_job(1)
    \/ \E j \in 1..1 : CoverStep(j)

SpecCover == Init /\ [][NextCover]_vars

\* _create_segments applied to every audio of up to MaxSamples samples, at
\* two sample rates and every segment_length up to MaxSegmentLength.
SampleValues == {0, 1}

SampleRates == {1, 2}

Audios == UNION {[1..n -> SampleValues] : n \in 0..MaxSamples}

InitSegments ==
    /\ jobs = NoJobs
    /\ disk = NoJobs
    /\ task = NoJobs
    /\ next_id = 1
    /\ response = Response("", "", 0)
    /\ wrappers = [s \in ModelStages |->
                      [available |-> TRUE, loaded |-> FALSE, variant |-> ""]]
    /\ \E audio \in Audios, sr \in SampleRates,
          segment_length \in 1..MaxSegmentLength :
          cover = NewCover(Segmenting("input", audio, sr, segment_length))

NextSegments ==
    \/ call_create_segments
    \/ call_np_concatenate

SpecSegments == InitSegments /\ [][NextSegments]_vars

\* The server with one job whose pipeline lists a stage that its config
\* disables, or lists a stage twice.
StagesConfigs ==
    {Config(<<"swiftf0", "svc">>, {"swiftf0"}, FALSE),
     Config(<<"svc", "mixing">>, {"mixing"}, TRUE),
     Config(<<"svc", "svc">>, {}, FALSE)}

StagesSegments == SeqsUpTo({SegmentData(0, 10, UserPath("a.wav"))}, MaxSegs)

InitStages == InitFor({[s \in ModelStages |-> TRUE]})

NextStages ==
    \/ start_job(StagesConfigs, StagesSegments, 1)
    \/ cancel_job_request(1)
    \/ \E j \in 1..1 : TaskStep(j)

SpecStages == InitStages /\ [][NextStages]_vars

(* ------------------------------- claims ------------------------------- *)

Terminal == {COMPLETED, FAILED, CANCELLED}

SegmentStatuses(job) == [k \in 1..Len(job.segments) |-> job.segments[k].status]

\* C1: once a job's status is Cancelled or Failed, no later step changes it.
C1_CancelledFailedTerminal ==
    [][\A j \in DOMAIN jobs :
          jobs[j].status \in {CANCELLED, FAILED}
             => jobs'[j].status = jobs[j].status]_vars

\* C2: once a job is Cancelled with no segment in flight (some segments
\* Completed, the rest Queued), every segment keeps its status: no further
\* segment is marked Running.
C2_NoSegmentStartsAfterCancel ==
    [][\A j \in DOMAIN jobs :
          /\ jobs[j].status = CANCELLED
          /\ \E k \in 1..Len(jobs[j].segments) :
                jobs[j].segments[k].status = COMPLETED
          /\ \A k \in 1..Len(jobs[j].segments) :
                jobs[j].segments[k].status \in {COMPLETED, QUEUED}
          => SegmentStatuses(jobs'[j]) = SegmentStatuses(jobs[j])]_vars

\* C3: while a job stays Running its progress never decreases from one step
\* to the next.
C3_ProgressMonotoneWhileRunning ==
    [][\A j \in DOMAIN jobs :
          jobs[j].status = RUNNING /\ jobs'[j].status = RUNNING
             => FracLeq(jobs[j].progress, jobs'[j].progress)]_vars

\* C4: in every reachable state, every job's segments_completed is the number
\* of its segments whose status is Completed or Failed.
C4_SegmentsCompletedIsCount ==
    \A j \in DOMAIN jobs :
        jobs[j].segments_completed =
            Cardinality({k \in DOMAIN jobs[j].segments :
                            jobs[j].segments[k].status = COMPLETED
                            \/ jobs[j].segments[k].status = FAILED})

C4_Witness ==
    \E j \in DOMAIN jobs :
        /\ jobs[j].segments_completed = 1
        /\ Len(jobs[j].segments) = 2
        /\ jobs[j].segments[1].status = COMPLETED

\* C5: a job is Completed only when none of its segments is Queued or Running
\* and the combiner has returned its output for that job.
C5_CompletedOnlyAfterSegmentsAndCombine ==
    \A j \in DOMAIN jobs :
        jobs[j].status = COMPLETED
           => /\ \A k \in DOMAIN jobs[j].segments :
                    jobs[j].segments[k].status \in {COMPLETED, FAILED}
              /\ jobs[j].results.output_path = CombinedPath(j)
              /\ task[j].results.output_path = CombinedPath(j)

C5_Witness ==
    \E j \in DOMAIN jobs :
        /\ jobs[j].status = COMPLETED
        /\ Len(jobs[j].segments) = 2

\* C6: a cancel_job call returns True and leaves the job Cancelled exactly
\* when the job exists and is Queued or Running; any other call returns False
\* and changes neither the jobs nor their snapshots.
C6_CancelOnlyFromQueuedOrRunning ==
    [][response'.op = "cancel_job"
          => LET id == response'.job_id
                 legal == /\ id \in DOMAIN jobs
                          /\ jobs[id].status \in {QUEUED, RUNNING}
             IN /\ response'.result = Bool(legal)
                /\ legal => jobs'[id].status = CANCELLED
                /\ ~legal => jobs' = jobs /\ disk' = disk]_vars

C6_Witness ==
    /\ response.op = "cancel_job"
    /\ response.result = "True"
    /\ response.job_id \in DOMAIN jobs
    /\ jobs[response.job_id].status = CANCELLED
    /\ jobs[response.job_id].message.text = "Job cancelled"

Registry == {"swiftf0", "svc", "instrumental", "mixing"}

RegistryOnly(pipeline) == \A k \in DOMAIN pipeline : pipeline[k] \in Registry

\* C7: a request whose pipeline names a stage outside the registry gets no job
\* id; no job, snapshot or background task ever holds such a pipeline, and no
\* stage outside the registry appears in a segment's stage results.
C7_UnknownStageRejected ==
    /\ \A j \in DOMAIN jobs : RegistryOnly(jobs[j].config.pipeline_stages)
    /\ \A j \in DOMAIN disk : RegistryOnly(disk[j].config.pipeline_stages)
    /\ \A j \in DOMAIN task :
          /\ RegistryOnly(task[j].config.pipeline_stages)
          /\ DOMAIN task[j].result.stages \subseteq Registry
    /\ response.result = "422" => response.job_id \notin DOMAIN jobs

C7_Witness ==
    /\ response.op = "start_job"
    /\ response.result = "422"
    /\ jobs = NoJobs
    /\ disk = NoJobs
    /\ task = NoJobs

\* C8: no job exists with a segment whose end_time is not after its
\* start_time.
C8_SegmentBoundsChecked ==
    \A j \in DOMAIN jobs :
        \A k \in DOMAIN jobs[j].segments :
            jobs[j].segments[k].end_time > jobs[j].segments[k].start_time

\* C9: a progress update leaves a terminal job alone: while a job stays
\* Completed, Failed or Cancelled its progress, current_stage, message and
\* updated_at do not change.
C9_ProgressUpdateNoOpWhenTerminal ==
    [][\A j \in DOMAIN jobs :
          jobs[j].status \in Terminal /\ jobs'[j].status = jobs[j].status
          /\ jobs'[j].segments = jobs[j].segments
             => /\ jobs'[j].progress = jobs[j].progress
                /\ jobs'[j].current_stage = jobs[j].current_stage
                /\ jobs'[j].message = jobs[j].message
                /\ jobs'[j].updated_at = jobs[j].updated_at]_vars

\* C10: a stage whose wrapper is unavailable is recorded as skipped in the
\* segment's stage results.
C10_UnavailableStageRecordedSkipped ==
    \A j \in DOMAIN task :
        \A s \in DOMAIN task[j].result.stages :
            s \in ModelStages /\ ~wrappers[s].available
               => task[j].result.stages[s].status = "skipped"

\* C11: when a stage's wrapper raised for a segment, the stage just run is
\* recorded as failed in the segment's stage results.
C11_RaisingStageRecordedFailed ==
    \A j \in DOMAIN task :
        task[j].stage_log = "processing failed"
           => LET stage == task[j].config.pipeline_stages[task[j].stage_idx]
              IN /\ stage \in DOMAIN task[j].result.stages
                 /\ task[j].result.stages[stage].status = "failed"

\* the combiner of job j has handed its concat list to ffmpeg
Concatenated(j) ==
    \/ task[j].results.output_path # NoPath
    \/ task[j].error = "ffmpeg concat failed"

\* C12: the concat list of a job holds the final artifact of every segment
\* that has an output, once each and in ascending segment order, and nothing
\* for a segment that has none.
C12_ConcatListIsValidSegmentsInOrder ==
    \A j \in DOMAIN task :
        Concatenated(j)
           => LET list == task[j].concat_list
                  res == task[j].results.segments
                  usable == {k \in 1..Len(res) : res[k].output_path # NoPath}
              IN /\ Len(res) = Len(task[j].segments)
                 /\ Len(list) = Cardinality(usable)
                 /\ \A k \in usable :
                       Cardinality({m \in 1..Len(list) :
                                      list[m] = TempPath(j, k - 1, "final")}) = 1
                 /\ \A m \in 1..Len(list) :
                       /\ list[m].kind = "final"
                       /\ list[m].job = j
                       /\ list[m].seg \in usable
                 /\ \A a, b \in 1..Len(list) :
                       a < b => list[a].seg < list[b].seg

C12_Witness ==
    \E j \in DOMAIN task :
        /\ Concatenated(j)
        /\ Len(task[j].segments) = 2
        /\ task[j].results.segments[2].output_path = NoPath
        /\ task[j].concat_list = <<TempPath(j, 0, "final")>>

\* every segment of job j has been processed and none has an output
NoUsableOutput(j) ==
    /\ Len(task[j].results.segments) = Len(task[j].segments)
    /\ \A k \in 1..Len(task[j].results.segments) :
          task[j].results.segments[k].output_path = NoPath

\* C13: a job none of whose segments has an output (a job of zero segments
\* included) never gets an output path; its combination fails with "No valid
\* segments to combine" and the job ends Failed with that message.
C13_NoValidSegmentsFailsJob ==
    \A j \in DOMAIN task :
        NoUsableOutput(j)
           => /\ jobs[j].results.output_path = NoPath
              /\ disk[j].results.output_path = NoPath
              /\ task[j].results.output_path = NoPath
              /\ task[j].pc \in {"fail", "done"}
                    => task[j].error = "No valid segments to combine"
              /\ task[j].pc = "done"
                    => /\ jobs[j].status = FAILED
                       /\ jobs[j].message =
                             MsgStr("Job failed: ", "No valid segments to combine")

C13_Witness ==
    \E j \in DOMAIN task :
        /\ NoUsableOutput(j)
        /\ Len(task[j].segments) = 2
        /\ task[j].pc = "done"
        /\ jobs[j].status = FAILED

\* C14: right after a job was created from a request, get_job with the id
\* returned gives a job that is Queued with progress 0, no segment counted as
\* done, and one Queued segment per segment definition of the request, each
\* with its position as index.
C14_CreateThenGetRoundTrip ==
    \A j \in DOMAIN task :
        response = Response("start_job", "200 queued", j) /\ task[j].pc = "start"
           => LET job == get_job(jobs, j)
              IN /\ job # NoJob
                 /\ job.job_id = j
                 /\ job.status = QUEUED
                 /\ job.progress = Frac(0, 1)
                 /\ job.segments_completed = 0
                 /\ Len(job.segments) = Len(task[j].segments)
                 /\ \A k \in 1..Len(job.segments) :
                       /\ job.segments[k].status = QUEUED
                       /\ job.segments[k].index = k - 1

C14_Witness ==
    \E j \in DOMAIN task :
        /\ response = Response("start_job", "200 queued", j)
        /\ task[j].pc = "start"
        /\ Len(task[j].segments) = 2
        /\ Len(get_job(jobs, j).segments) = 2

\* C15: the config stored in a job, and the config its task runs with, never
\* change after the job was created.
C15_ConfigIsCreationSnapshot ==
    [][\A j \in DOMAIN jobs :
          /\ jobs'[j].config = jobs[j].config
          /\ j \in DOMAIN task => task'[j].config = task[j].config]_vars

\* C16: whatever JobManager calls have been made, the metadata file of every
\* job holds the job as it is in memory, all its segments included.
C16_SnapshotEqualsJob ==
    /\ DOMAIN disk = DOMAIN jobs
    /\ \A j \in DOMAIN jobs : disk[j] = jobs[j]

C16_Witness ==
    \E j \in DOMAIN jobs :
        /\ response.op = "update_job_status"
        /\ response.job_id = j
        /\ jobs[j].status = PAUSED
        /\ Len(jobs[j].segments) = 1
        /\ jobs[j].segments[1].status = COMPLETED
        /\ jobs[j].progress = Frac(50, 1)
        /\ disk[j].status = PAUSED
        /\ disk[j].segments[1].status = COMPLETED

\* C17: an update_segment_status call whose index is negative or not below
\* the number of segments returns normally and leaves every segment of the
\* job, and its segments_completed, as they were.
C17_OutOfRangeSegmentIndexIgnored ==
    [][response'.op = "update_segment_status"
       /\ response'.job_id \in DOMAIN jobs
       /\ (response'.arg < 0
             \/ response'.arg >= Len(jobs[response'.job_id].segments))
          => /\ response'.result = "None"
             /\ jobs'[response'.job_id].segments = jobs[response'.job_id].segments
             /\ jobs'[response'.job_id].segments_completed
                   = jobs[response'.job_id].segments_completed
             /\ disk'[response'.job_id].segments = disk[response'.job_id].segments]_vars

C17_Witness ==
    /\ response.op = "update_segment_status"
    /\ response.arg = -1
    /\ response.job_id \in DOMAIN jobs
    /\ Len(jobs[response.job_id].segments) = 1
    /\ jobs[response.job_id].segments[1].status = RUNNING
    /\ jobs[response.job_id].segments_completed = 0

\* C18: what list_jobs(limit, status_filter) returns has at most limit jobs,
\* is ordered by created_at descending, and with a status_filter holds only
\* jobs whose status is the filter's.
C18_ListJobsLimitedOrderedFiltered ==
    response.op = "list_jobs"
       => /\ Len(response.listed) <= response.arg
          /\ \A a, b \in 1..Len(response.listed) :
                a < b => response.listed[a].created_at
                            >= response.listed[b].created_at
          /\ response.text # NoFilter
                => \A k \in 1..Len(response.listed) :
                      response.listed[k].status = Lower(response.text)

\* C19: every step that changes a field of a job or of one of its segments
\* leaves the job's updated_at later than it was.
C19_UpdatedAtAdvancesOnMutation ==
    [][\A j \in DOMAIN jobs :
          jobs'[j] # jobs[j] => jobs'[j].updated_at > jobs[j].updated_at]_vars

\* C20: in every reachable state the progress of every job is at least 0 and
\* at most 100, whatever the number of its segments.
C20_ProgressWithinRange ==
    \A j \in DOMAIN jobs :
        /\ FracLeq(Frac(0, 1), jobs[j].progress)
        /\ FracLeq(jobs[j].progress, Frac(100, 1))
        /\ jobs[j].progress.den > 0

C20_Witness ==
    \E j \in DOMAIN jobs :
        /\ Len(jobs[j].segments) = 0
        /\ jobs[j].status = RUNNING
        /\ jobs[j].progress = Frac(90, 1)

\* C21: a get, status, progress or segment update, complete, fail, cancel or
\* delete call for an id that no job has returns None or False and leaves
\* the jobs and the metadata files as they were.
C21_UnknownJobIdChangesNothing ==
    [][response'.op \in {"get_job", "update_job_status", "update_job_progress",
                         "update_segment_status", "complete_job", "fail_job",
                         "cancel_job", "delete_job"}
       /\ response'.job_id \notin DOMAIN jobs
          => /\ jobs' = jobs
             /\ disk' = disk
             /\ response'.result \in {"None", "False"}]_vars

C21_Witness ==
    /\ response.op = "delete_job"
    /\ response.result = "False"
    /\ response.job_id = 2
    /\ DOMAIN jobs = {1}
    /\ DOMAIN disk = {1}
    /\ jobs[1].status = RUNNING

\* C22: a job is Failed only because no segment had an output to combine or
\* because the combiner failed, and by then every segment has been
\* processed; a failure inside one segment does not fail the job.
C22_SegmentFailureDoesNotFailJob ==
    \A j \in DOMAIN task :
        jobs[j].status = FAILED
           => /\ task[j].error \in {"No valid segments to combine",
                                    "ffmpeg concat failed"}
              /\ Len(task[j].results.segments) = Len(task[j].segments)

\* C23: a segment that came out of its stages with no output is marked
\* Failed.
C23_SegmentWithoutOutputIsFailed ==
    \A j \in DOMAIN task :
        \A k \in 1..Len(task[j].results.segments) :
            task[j].results.segments[k].output_path = NoPath
               => jobs[j].segments[k].status = FAILED

\* C24: every Completed segment has its final artifact as result_path and
\* preview_path, and once the concat list is written the segments in it are
\* the Completed ones.
C24_CompletedSegmentHasResultPath ==
    \A j \in DOMAIN task :
        /\ \A k \in 1..Len(jobs[j].segments) :
              jobs[j].segments[k].status = COMPLETED
                 => /\ jobs[j].segments[k].result_path = TempPath(j, k - 1, "final")
                    /\ jobs[j].segments[k].preview_path = TempPath(j, k - 1, "final")
        /\ Concatenated(j)
              => {task[j].concat_list[m].seg : m \in 1..Len(task[j].concat_list)}
                    = {k \in 1..Len(jobs[j].segments) :
                          jobs[j].segments[k].status = COMPLETED}

\* C25: the segments of a job are processed one at a time in index order:
\* at most one is Running, a segment has left Queued only when every earlier
\* one is no longer Queued or Running, and while a segment is in its stages
\* or has a stage recorded it is Running and the progress reported for it,
\* index/count*100, was written before.
C25_SegmentsSequentialInOrder ==
    \A j \in DOMAIN task :
        LET segs == jobs[j].segments
            t == task[j]
        IN /\ Cardinality({k \in 1..Len(segs) : segs[k].status = RUNNING}) <= 1
           /\ \A k \in 1..Len(segs) :
                 segs[k].status # QUEUED
                    => \A m \in 1..(k - 1) : segs[m].status \notin {QUEUED, RUNNING}
           /\ t.pc = "seg_running"
                 => /\ segs[t.segment_idx + 1].status = QUEUED
                    /\ jobs[j].progress = Frac(t.segment_idx * 100, Len(segs))
           /\ t.pc \in {"stage", "seg_save", "seg_completed"}
                 => /\ segs[t.segment_idx + 1].status = RUNNING
                    /\ jobs[j].progress = Frac(t.segment_idx * 100, Len(segs))
           /\ t.pc \in {"seg_progress", "seg_running"} /\ t.segment_idx = 0
                 => t.result.stages = NoStages

C25_Witness ==
    \E j \in DOMAIN task :
        /\ Len(jobs[j].segments) = 2
        /\ jobs[j].segments[1].status = COMPLETED
        /\ jobs[j].segments[2].status = RUNNING
        /\ jobs[j].progress = Frac(50, 1)
        /\ task[j].segment_idx = 1
        /\ "swiftf0" \in DOMAIN task[j].result.stages

\* C26: a Completed job has progress 100 and the combiner's output as its
\* results' output_path, and a job has progress 100 only after its combiner
\* returned an output.
C26_CompletedMeansHundredAndOutput ==
    \A j \in DOMAIN jobs :
        /\ jobs[j].status = COMPLETED
              => /\ jobs[j].progress = Frac(100, 1)
                 /\ jobs[j].results.output_path = CombinedPath(j)
        /\ jobs[j].progress = Frac(100, 1)
              => /\ task[j].results.output_path = CombinedPath(j)
                 /\ task[j].pc \in {"complete", "done"}

C26_Witness ==
    \E j \in DOMAIN jobs :
        /\ jobs[j].status = COMPLETED
        /\ jobs[j].progress = Frac(100, 1)
        /\ jobs[j].results.output_path = CombinedPath(j)
        /\ task[j].pc = "done"
        /\ Len(jobs[j].segments) = 1

\* C27: when an error has left process() for a job, process_job ends with
\* the job Failed and the error text in its message, and the step that
\* records the failure changes no other job, snapshot or task.
C27_EscapedErrorFailsOnlyItsJob ==
    /\ [](\A j \in DOMAIN task :
             task[j].pc = "done" /\ task[j].error # ""
                => /\ jobs[j].status = FAILED
                   /\ jobs[j].message = MsgStr("Job failed: ", task[j].error))
    /\ [][\A j \in DOMAIN task :
             task[j].pc = "fail" /\ task'[j].pc = "done"
                => \A o \in DOMAIN jobs \ {j} :
                      /\ jobs'[o] = jobs[o]
                      /\ disk'[o] = disk[o]
                      /\ task'[o] = task[o]]_vars

C27_Witness ==
    /\ DOMAIN jobs = {1, 2}
    /\ task[2].pc = "done"
    /\ task[2].error = "ffmpeg convert failed"
    /\ jobs[2].status = FAILED
    /\ jobs[2].message = MsgStr("Job failed: ", "ffmpeg convert failed")
    /\ jobs[1].status = RUNNING
    /\ task[1].pc = "stage"

\* C28: every stage of the pipeline that the stage loop has passed for a
\* segment and that the config disables is recorded as skipped in the
\* segment's stage results.
C28_DisabledStageRecordedSkipped ==
    \A j \in DOMAIN task :
        \A k \in 1..task[j].stage_idx :
            LET stage == task[j].config.pipeline_stages[k]
            IN ~task[j].config.enabled[stage]
                  => /\ stage \in DOMAIN task[j].result.stages
                     /\ task[j].result.stages[stage].status = "skipped"

\* C29: with clear_cache_between_segments set, one reclamation call has been
\* made for each segment that finished, after it finished and before the
\* next one starts; without the flag none is made; and a reclamation call,
\* failing or not, changes no job or snapshot and does not fail the task.
C29_OneReclamationPerSegment ==
    /\ [](\A j \in DOMAIN task :
             LET t == task[j]
                 finished == Len(t.results.segments)
             IN /\ ~t.config.clear_cache_between_segments => t.reclaims = 0
                /\ t.config.clear_cache_between_segments
                      => t.reclaims = IF t.pc = "clear_cache"
                                      THEN finished - 1 ELSE finished
                /\ t.pc \in {"seg_progress", "seg_running", "stage", "seg_save",
                              "seg_completed"}
                      => finished = t.segment_idx)
    /\ [][\A j \in DOMAIN task :
             task[j].pc = "clear_cache" /\ task'[j].pc # "clear_cache"
                => /\ jobs' = jobs
                   /\ disk' = disk
                   /\ task'[j].reclaims = task[j].reclaims + 1
                   /\ task'[j].pc # "fail"
                   /\ task'[j].error = ""]_vars

C29_Witness ==
    \E j \in DOMAIN task :
        /\ task[j].config.clear_cache_between_segments
        /\ Len(task[j].segments) = 2
        /\ task[j].reclaims = 1
        /\ task[j].reclaim_failed
        /\ task[j].pc = "seg_progress"
        /\ task[j].results.segments[1].stages["svc"].output = UserPath("a.wav")
        /\ jobs[j].status = RUNNING

\* the segments with status Running, over all jobs
RunningSegments ==
    {<<j, k>> \in (DOMAIN jobs) \X (1..MaxSegs) :
        k <= Len(jobs[j].segments) /\ jobs[j].segments[k].status = RUNNING}

\* C30: the number of segments with status Running, over all jobs, never
\* exceeds the max_concurrent_segments of any job's config.
C30_MaxConcurrentSegmentsEnforced ==
    \A j \in DOMAIN jobs :
        Cardinality(RunningSegments) <= jobs[j].config.max_concurrent_segments

\* C31: within a segment no wrapper's process is called more than once.
C31_StageInvokedAtMostOncePerSegment ==
    \A j \in DOMAIN task :
        \A s \in ModelStages : task[j].invocations[s] <= 1

\* C32: a job whose background task was started eventually has a terminal
\* status with its task finished.
C32_StartedTaskReachesTerminalStatus ==
    \A j \in 1..MaxJobs :
        (j \in DOMAIN task)
            ~> (/\ j \in DOMAIN task
                /\ j \in DOMAIN jobs
                /\ task[j].pc = "done"
                /\ jobs[j].status \in Terminal)

C32_Witness ==
    \E j \in DOMAIN task :
        /\ task[j].pc = "done"
        /\ Len(task[j].segments) = MaxSegs
        /\ task[j].error = ""
        /\ task[j].raised # {}
        /\ jobs[j].status = COMPLETED

\* C33: a job with a terminal status has no segment with status Running.
C33_TerminalJobHasNoRunningSegment ==
    \A j \in DOMAIN jobs :
        jobs[j].status \in Terminal
           => \A k \in 1..Len(jobs[j].segments) :
                 jobs[j].segments[k].status # RUNNING

\* a job id that create_job has issued and that is no longer registered
Deleted(j) == j < next_id /\ j \notin DOMAIN jobs

\* C34: a deleted job has no metadata file, stays deleted through every
\* later step of its background task, and get_job answers None for it.
C34_DeletedJobStaysDeleted ==
    /\ [](\A j \in 1..MaxJobs : Deleted(j) => j \notin DOMAIN disk)
    /\ [][\A j \in 1..MaxJobs :
             Deleted(j)
                => /\ Deleted(j)'
                   /\ (response'.op = "get_job" /\ response'.job_id = j)
                         => response'.result = "None"]_vars

\* the task of a job deleted under it has run to its complete_job call, and
\* a later get_job found nothing
C34_Witness ==
    \E j \in DOMAIN task :
        /\ Deleted(j)
        /\ task[j].pc = "done"
        /\ task[j].error = ""
        /\ Len(task[j].results.segments) = MaxSegs
        /\ response.op = "get_job"
        /\ response.job_id = j

\* C35: the SVC variant in use when a job's svc stage runs is the variant of
\* that job's own config.
C35_StageLoadedFromOwnConfig ==
    \A j \in DOMAIN task :
        task[j].svc_variant_used \in {"", task[j].config.svc_variant}

\* C36: a stage invocation is handed an output path that differs from the
\* path it reads, and that names its own job and segment.
C36_StageOutputDistinctFromInput ==
    \A j \in DOMAIN task :
        task[j].stage_output # NoPath
           => /\ task[j].stage_output # task[j].stage_input
              /\ task[j].stage_output.job = j
              /\ task[j].pc \in {"stage", "seg_save"}
                    => task[j].stage_output.seg = task[j].segment_idx + 1

\* C37: a download request is served only for a Completed job whose results
\* carry an output_path, is refused for a job in any other status, and
\* changes no job, snapshot or task.
C37_DownloadOnlyWhenCompleted ==
    [][(response'.op = "download_result" /\ response' # response)
          => LET id == response'.job_id
             IN /\ UNCHANGED <<jobs, disk, task>>
                /\ response'.result = "200 file"
                      => /\ id \in DOMAIN jobs
                         /\ jobs[id].status = COMPLETED
                         /\ jobs[id].results.output_path # NoPath
                /\ (id \in DOMAIN jobs /\ jobs[id].status # COMPLETED)
                      => response'.result = "400 Job not completed"]_vars

\* a download served for a Completed job
C37_Witness ==
    /\ response.op = "download_result"
    /\ response.result = "200 file"
    /\ response.job_id \in DOMAIN jobs
    /\ jobs[response.job_id].status = COMPLETED
    /\ jobs[response.job_id].results.output_path = CombinedPath(response.job_id)

\* C38: once DELETE /job/{id} has answered that the job is deleted,
\* get_job_status knows no job of that id.
C38_DeletedCoverJobStaysUnknown ==
    (cover.response.op = "delete_job"
        /\ cover.response.result = "200 Job deleted successfully")
       => CoverPipeline_get_job_status(cover.jobs, cover.response.job_id)
             = NoCoverJob

\* C39: once POST /process has answered "queued" with a job id,
\* get_job_status knows a job of that id.
C39_QueuedCoverJobIsKnown ==
    (cover.response.op = "process_audio" /\ cover.response.result = "queued")
       => CoverPipeline_get_job_status(cover.jobs, cover.response.job_id)
             # NoCoverJob

\* the segments cover 0..L in order without gap or overlap, each of at most
\* S samples and only the last of fewer, each holding its stretch of audio
IsPartition(segments, audio, S) ==
    LET n == Len(segments)
        L == Len(audio)
    IN /\ (n = 0) <=> (L = 0)
       /\ n > 0 => segments[1].start_sample = 0 /\ segments[n].end_sample = L
       /\ \A k \in 1..n :
             /\ segments[k].start_sample < segments[k].end_sample
             /\ segments[k].end_sample - segments[k].start_sample <= S
             /\ k < n => /\ segments[k].end_sample = segments[k + 1].start_sample
                         /\ segments[k].end_sample - segments[k].start_sample = S
             /\ segments[k].audio = SubSeq(audio, segments[k].start_sample + 1,
                                           segments[k].end_sample)

====
